---- MODULE Spec2Model ----
(***************************************************************************)
(* Map Screenshot API (src/index.js, v1.1.0, lines 199-931): the browser   *)
(* pool, the /screenshot request handlers and the readiness script of the  *)
(* generated page, as a state machine.                                     *)
(*                                                                         *)
(* Node runs handlers on one thread: a handler runs without interruption   *)
(* from one await to the next, so every action below is the code between   *)
(* two awaits of a handler (or one event handler of the page script).      *)
(***************************************************************************)
EXTENDS Integers, Sequences, FiniteSets, Bags, TLC

(* ------------------------------ bounds --------------------------------- *)

\* request slots: how many /screenshot requests can be in flight at once
MaxReqs == 4

\* requests in flight at once in the runs where operations can fail
MaxFailReqs == 2

\* how many times puppeteer.launch can succeed in one behaviour
MaxBrowsers == 4

\* tile fetches one page can start
MaxTiles == 2

\* seconds of page time that are followed
MaxClock == 22

\* termination signals delivered in one behaviour (SIGTERM, SIGINT)
MaxSignals == 2

\* byte length of the largest image the browser encodes
MaxBytes == 12

Reqs == 1..MaxReqs

BrowserIds == 1..MaxBrowsers

(* ------------------------- program constants --------------------------- *)

\* BrowserPool.maxSize
maxSize == 3

\* waitForFunction({ timeout: 20000 }), in seconds
WaitTimeout == 20

\* setTimeout(resolve, 1000) after readiness, in seconds
SettleDelay == 1

\* setTimeout(..., 2000) of the page script, in seconds
NoTilesDelay == 2

\* a forced-ready timer set later than the orchestrator's wait
HardDelayLate == WaitTimeout + 5

\* setTimeout(..., 15000) of the page script, in seconds
HardDelay == 15

VARIABLES
    browsers,   \* BrowserPool.browsers: the idle instances, a stack
    inUse,      \* BrowserPool.inUse: the leased instances, a Set
    closed,     \* instances on which browser.close() has been called
    launched,   \* number of instances puppeteer.launch has created
    pages,      \* per instance: pages opened by newPage and not yet closed
    pc,         \* per request: the await the handler is suspended at
    browser,    \* per request: the handler's local `browser` (0 = null)
    err,        \* per request: the error the catch block received
    status,     \* per request: HTTP status of the response sent (0 = none)
    details,    \* per request: the rules listed in the body of a 400 response
    input,      \* req.body of the POST /screenshot requests of this behaviour
    script,     \* per request: the page's inline script: none, running, dead
    title,      \* per request: document.title of the page
    total,      \* per request: `total` of the page script (fetches started)
    loaded,     \* per request: `loaded` of the page script (fetches ended)
    timers,     \* per request: pending setTimeout callbacks of the page
    fetching,   \* per request: the page's tile fetches in flight, by layer (a bag)
    now,        \* per request: seconds since the page script started
    since,      \* per request: `now` when the pending Node-side timer began
    signals,    \* number of termination signals handled so far
    exited,     \* process.exit(0) has run
    html,       \* per request: the document generateHtml returned (<<>> = none)
    options,    \* per request: screenshotOptions passed to page.screenshot
    buffer,     \* per request: the buffer page.screenshot resolved with
    headers,    \* per request: the headers set on the 200 response
    bytes       \* byte length of the images the browser encodes in this behaviour

poolVars == <<browsers, inUse, closed, launched, pages>>

reqVars == <<pc, browser, err, status, details, input>>

pageVars == <<script, title, total, loaded, timers, fetching>>

timeVars == <<now, since>>

sigVars == <<signals, exited>>

outVars == <<html, options, buffer, headers, bytes>>

vars == <<poolVars, reqVars, pageVars, timeVars, sigVars, outVars>>

Range(s) == {s[i] : i \in 1..Len(s)}

Min(a, b) == IF a < b THEN a ELSE b

Max(a, b) == IF a > b THEN a ELSE b

(* --------------------------- BrowserPool -------------------------------- *)

\* browser.close(): the instance is destroyed; closing twice changes nothing
Close(bs) == closed' = closed \cup bs

\* an operation on a closed instance rejects
Alive(b) == b \notin closed

\* getBrowser handing out the top idle instance without removing it
getBrowserIdleNoPop(r) ==
    /\ Len(browsers) > 0
    /\ LET b == browsers[Len(browsers)] IN
         /\ browsers' = browsers
         /\ inUse' = inUse \cup {b}
         /\ browser' = [browser EXCEPT ![r] = b]
    /\ UNCHANGED <<closed, launched, pages>>

\* getBrowser handing out the instance that has been idle longest (shift)
getBrowserIdleFifo(r) ==
    /\ Len(browsers) > 0
    /\ LET b == browsers[1] IN
         /\ browsers' = Tail(browsers)
         /\ inUse' = inUse \cup {b}
         /\ browser' = [browser EXCEPT ![r] = b]
    /\ UNCHANGED <<closed, launched, pages>>

\* getBrowser, first branch: an idle instance exists, pop it and lease it
getBrowserIdle(r) ==
    /\ Len(browsers) > 0
    /\ LET b == browsers[Len(browsers)] IN
         /\ browsers' = SubSeq(browsers, 1, Len(browsers) - 1)
         /\ inUse' = inUse \cup {b}
         /\ browser' = [browser EXCEPT ![r] = b]
    /\ UNCHANGED <<closed, launched, pages>>

\* getBrowser, second branch after `await puppeteer.launch` has resolved
getBrowserLaunched(r) ==
    /\ launched < MaxBrowsers
    /\ LET b == launched + 1 IN
         /\ launched' = b
         /\ inUse' = inUse \cup {b}
         /\ browser' = [browser EXCEPT ![r] = b]
    /\ UNCHANGED <<browsers, closed, pages>>

\* releaseBrowser comparing with <= instead of <
releaseBrowserOffByOne(b) ==
    /\ inUse' = inUse \ {b}
    /\ IF Len(browsers) <= maxSize
         THEN browsers' = Append(browsers, b) /\ closed' = closed
         ELSE browsers' = browsers /\ Close({b})
    /\ UNCHANGED launched

\* releaseBrowser(browser)
releaseBrowser(b) ==
    /\ inUse' = inUse \ {b}
    /\ IF Len(browsers) < maxSize
         THEN browsers' = Append(browsers, b) /\ closed' = closed
         ELSE browsers' = browsers /\ Close({b})
    /\ UNCHANGED launched

(* ------------------------ the generated page ---------------------------- *)

\* the counter test without the comparison with `total`
countersDoneAny(t, l) == l > 0

\* the counter test without `total > 0`
countersDoneNoStart(t, l) == l >= t

\* the counter test made by the tile and rendercomplete listeners
countersDone(t, l) == t > 0 /\ l >= t

\* the page is live while the handler is between setContent and page.close
PageLive(r) == pc[r] \in {"wait", "settle", "screenshot", "pageClose"}

\* a page timer whose delay has passed must run before the clock moves on
TimerDue(r, name, delay) == name \in timers[r] /\ now[r] >= delay

\* the tile-backed layers a generated script creates
TileLayers(doc) ==
    {doc[k].target : k \in {j \in 1..Len(doc) :
                               /\ doc[j].op = "const"
                               /\ doc[j].target[1] \in {"osmLayer", "wmsLayer"}}}

\* how many times tileSources.forEach meets the source of a layer: once for
\* every `tileSources.push(<layer>.getSource())` of the script
Registrations(doc, layer) ==
    Cardinality({k \in 1..Len(doc) : /\ doc[k].op = "push"
                                     /\ doc[k].target = <<"tileSources">>
                                     /\ doc[k].arg = layer})

\* a layer starts a tile fetch: every tileloadstart listener on its source runs
TileLoadStart(r) ==
    /\ ~exited
    /\ PageLive(r) /\ script[r] = "running"
    /\ BagCardinality(fetching[r]) + loaded[r] < MaxTiles
    /\ \E layer \in TileLayers(html[r]) :
         /\ fetching' = [fetching EXCEPT ![r] = @ (+) SetToBag({layer})]
         /\ total' = [total EXCEPT ![r] = @ + Registrations(html[r], layer)]
    /\ UNCHANGED <<poolVars, reqVars, script, title, loaded, timers,
                   timeVars, sigVars>>
    /\ UNCHANGED outVars

\* a fetch ends or fails: every tileloadend (tileloaderror) listener on the
\* source of its layer runs; the two listeners have the same body
TileLoadEnd(r) ==
    /\ ~exited
    /\ PageLive(r) /\ script[r] = "running"
    /\ \E layer \in BagToSet(fetching[r]) :
         LET n == Registrations(html[r], layer)
         IN /\ fetching' = [fetching EXCEPT ![r] = @ (-) SetToBag({layer})]
            /\ loaded' = [loaded EXCEPT ![r] = @ + n]
            /\ title' = [title EXCEPT ![r] =
                           IF n > 0 /\ countersDone(total[r], loaded[r] + n)
                             THEN "ready" ELSE @]
    /\ UNCHANGED <<poolVars, reqVars, script, total, timers, timeVars, sigVars>>
    /\ UNCHANGED outVars

\* rendercomplete listener
RenderComplete(r) ==
    /\ ~exited
    /\ PageLive(r) /\ script[r] = "running"
    /\ title' = [title EXCEPT ![r] =
                   IF countersDone(total[r], loaded[r]) THEN "ready" ELSE @]
    /\ UNCHANGED <<poolVars, reqVars, script, total, loaded, timers,
                   timeVars, sigVars>>
    /\ UNCHANGED <<fetching, outVars>>

\* the 2 s timer: ready when no fetch was ever started
NoTilesTimer(r) ==
    /\ ~exited
    /\ PageLive(r) /\ script[r] = "running"
    /\ TimerDue(r, "noTiles", NoTilesDelay)
    /\ timers' = [timers EXCEPT ![r] = @ \ {"noTiles"}]
    /\ title' = [title EXCEPT ![r] =
                   IF total[r] = 0 /\ @ # "ready" THEN "ready" ELSE @]
    /\ UNCHANGED <<poolVars, reqVars, script, total, loaded, timeVars, sigVars>>
    /\ UNCHANGED <<fetching, outVars>>

\* the 15 s timer: ready whatever the counters say
HardTimer(r) ==
    /\ ~exited
    /\ PageLive(r) /\ script[r] = "running"
    /\ TimerDue(r, "hard", HardDelay)
    /\ timers' = [timers EXCEPT ![r] = @ \ {"hard"}]
    /\ title' = [title EXCEPT ![r] = IF @ # "ready" THEN "ready" ELSE @]
    /\ UNCHANGED <<poolVars, reqVars, script, total, loaded, timeVars, sigVars>>
    /\ UNCHANGED <<fetching, outVars>>

\* the Node-side timer the handler is waiting on has run out
NodeTimerDue(r) ==
    \/ pc[r] = "wait" /\ now[r] >= since[r] + WaitTimeout
    \/ pc[r] = "settle" /\ now[r] >= since[r] + SettleDelay

\* waitForFunction polls the title on every frame: it sees it within the second
SignalSeen(r) == pc[r] = "wait" /\ title[r] = "ready"

\* one second passes for the page of r and for the handler waiting on it;
\* nothing that is due is skipped
Tick(r) ==
    /\ ~exited
    /\ PageLive(r)
    /\ now[r] < MaxClock
    /\ ~TimerDue(r, "noTiles", NoTilesDelay)
    /\ ~TimerDue(r, "hard", HardDelay)
    /\ ~NodeTimerDue(r)
    /\ ~SignalSeen(r)
    /\ now' = [now EXCEPT ![r] = @ + 1]
    /\ UNCHANGED <<poolVars, reqVars, pageVars, since, sigVars>>
    /\ UNCHANGED outVars

\* the page script seen from outside: one of its five assignments of
\* document.title runs (counters and timers not followed)
ScriptSetsReady(r) ==
    /\ ~exited
    /\ pc[r] = "wait" /\ script[r] = "running"
    /\ title[r] # "ready"
    /\ title' = [title EXCEPT ![r] = "ready"]
    /\ UNCHANGED <<poolVars, reqVars, script, total, loaded, timers,
                   timeVars, sigVars>>
    /\ UNCHANGED <<fetching, outVars>>

\* time seen from outside: the settle delay runs out (page not followed)
Elapse(r) ==
    /\ ~exited
    /\ pc[r] = "settle"
    /\ ~NodeTimerDue(r)
    /\ now' = [now EXCEPT ![r] = since[r] + SettleDelay]
    /\ UNCHANGED <<poolVars, reqVars, pageVars, since, sigVars>>
    /\ UNCHANGED outVars

(* --------------------------- validateInput ------------------------------ *)

\* JavaScript values of the request body: numbers (integers here), strings
\* and undefined
Num(n) == [t |-> "number", n |-> n, s |-> ""]

Str(x) == [t |-> "string", n |-> 0, s |-> x]

Undefined == [t |-> "undefined", n |-> 0, s |-> ""]

\* a destructuring default applies to undefined only
Default(v, d) == IF v.t = "undefined" THEN d ELSE v

\* NaN is a number that is not a number
NaN == [t |-> "number", n |-> 0, s |-> "NaN"]

isNaN(v) == v.t = "number" /\ v.s = "NaN"

Digit(c) ==
    CASE c = "0" -> 0 [] c = "1" -> 1 [] c = "2" -> 2 [] c = "3" -> 3
      [] c = "4" -> 4 [] c = "5" -> 5 [] c = "6" -> 6 [] c = "7" -> 7
      [] c = "8" -> 8 [] c = "9" -> 9 [] OTHER -> -1

RECURSIVE ScanDigits(_, _, _, _)

\* the run of decimal digits of text from character i on: its value, how
\* many digits it has, and the position after it
ScanDigits(text, i, val, count) ==
    IF i > Len(text) \/ Digit(SubSeq(text, i, i)) < 0
      THEN [val |-> val, count |-> count, stop |-> i]
      ELSE ScanDigits(text, i + 1, 10 * val + Digit(SubSeq(text, i, i)), count + 1)

\* an optional sign and the digits after it
ScanInt(text) ==
    LET signed == Len(text) > 0 /\ SubSeq(text, 1, 1) \in {"-", "+"}
        run == ScanDigits(text, IF signed THEN 2 ELSE 1, 0, 0)
    IN [run EXCEPT !.val = IF signed /\ SubSeq(text, 1, 1) = "-" THEN 0 - @ ELSE @]

\* parseInt(v): the leading integer of String(v), NaN when there is none
\* (the numbers of the model are integers: parseInt leaves them as they are)
parseInt(v) ==
    CASE v.t = "number" -> v
      [] v.t = "string" ->
           IF ScanInt(v.s).count > 0 THEN Num(ScanInt(v.s).val) ELSE NaN
      [] OTHER -> NaN

\* parseFloat(v), for the texts of the model, which hold no fraction
parseFloat(v) == parseInt(v)

\* ToNumber, as the comparison operators apply it: a string counts when all
\* of it is a number, '' is 0, undefined is NaN
ToNumber(v) ==
    CASE v.t = "number" -> v
      [] v.t = "string" ->
           IF v.s = "" THEN Num(0)
           ELSE IF ScanInt(v.s).count > 0 /\ ScanInt(v.s).stop > Len(v.s)
             THEN Num(ScanInt(v.s).val) ELSE NaN
      [] OTHER -> NaN

\* v < k and v > k: false when v is NaN
Less(v, k) == ~isNaN(ToNumber(v)) /\ ToNumber(v).n < k

More(v, k) == ~isNaN(ToNumber(v)) /\ ToNumber(v).n > k

\* ToBoolean: 0, '' and undefined are falsy
Truthy(v) ==
    CASE v.t = "number" -> v.n # 0
      [] v.t = "string" -> v.s # ""
      [] OTHER -> FALSE

\* typeof v !== 'number' || v < lo || v > hi
NotNumberIn(v, lo, hi) == v.t # "number" \/ Less(v, lo) \/ More(v, hi)

\* one entry of the `errors` array: the rule and, for a WMS layer, its index
Rule(name) == [rule |-> name, layer |-> 0]

LayerRule(name, i) == [rule |-> name, layer |-> i]

\* errors.push(...) when the condition holds
PushIf(cond, e) == IF cond THEN <<e>> ELSE <<>>

\* the width check (the height check has the same shape)
widthErrors(width) ==
    PushIf(Truthy(width) /\ NotNumberIn(width, 50, 2000), Rule("width"))

heightErrors(height) ==
    PushIf(Truthy(height) /\ NotNumberIn(height, 50, 2000), Rule("height"))

\* the body of wms.forEach for the layer at (1-based) position i
layerErrors(layer, i) ==
    PushIf(~Truthy(layer.url) \/ layer.url.t # "string", LayerRule("wmsUrl", i))
    \o PushIf(~Truthy(layer.layers) \/ layer.layers.t # "string",
              LayerRule("wmsLayers", i))
    \o PushIf(layer.opacity.t # "undefined" /\ NotNumberIn(layer.opacity, 0, 1),
              LayerRule("wmsOpacity", i))

RECURSIVE forEachLayer(_, _)

forEachLayer(items, i) ==
    IF i > Len(items) THEN <<>>
    ELSE layerErrors(items[i], i) \o forEachLayer(items, i + 1)

\* the `if (wms)` block; wms is null, an array, or something else truthy
wmsErrors(wms) ==
    IF wms.t = "null" THEN <<>>
    ELSE IF wms.t # "array" THEN <<Rule("wmsArray")>>
    ELSE PushIf(Len(wms.items) > 5, Rule("wmsCount"))
         \o forEachLayer(wms.items, 1)

\* the `if (pin)` block; pin is null, an object, or something else truthy
pinErrors(pin) ==
    IF pin.t = "null" THEN <<>>
    ELSE IF pin.t # "object" THEN <<Rule("pinObject")>>
    ELSE PushIf(pin.lat.t # "undefined" /\ NotNumberIn(pin.lat, -90, 90),
                Rule("pinLat"))
         \o PushIf(pin.lon.t # "undefined" /\ NotNumberIn(pin.lon, -180, 180),
                   Rule("pinLon"))
         \o PushIf(Truthy(pin.text) /\ pin.text.t # "string", Rule("pinText"))
         \o PushIf(Truthy(pin.text) /\ pin.text.t = "string"
                     /\ Len(pin.text.s) > 50, Rule("pinTextLength"))
         \o PushIf(Truthy(pin.color) /\ pin.color.t # "string", Rule("pinColor"))
         \o PushIf(Truthy(pin.size) /\ NotNumberIn(pin.size, 1, 50),
                   Rule("pinSize"))

\* validateInput(lat, lon, zoom, width, height, wms, pin): the errors array
validateInput(lat, lon, zoom, width, height, wms, pin) ==
    PushIf(NotNumberIn(lat, -90, 90), Rule("lat"))
    \o PushIf(NotNumberIn(lon, -180, 180), Rule("lon"))
    \o PushIf(NotNumberIn(zoom, 1, 20), Rule("zoom"))
    \o widthErrors(width)
    \o heightErrors(height)
    \o wmsErrors(wms)
    \o pinErrors(pin)

supportedFormats == {"jpeg", "png", "webp"}

(* ---------------------------- generateHtml ------------------------------ *)

\* `${v}` in a template literal: String(v), with nothing escaped
Interp(v) ==
    CASE v.t = "string" -> v.s
      [] v.t = "number" -> ToString(v.n)
      [] OTHER -> v.t

\* an interpolated value and the place of the script text it lands in:
\* "quoted" between two single quotes, "comment" after //, "code" bare
Embed(ctx, v) == [ctx |-> ctx, text |-> Interp(v)]

\* one statement of the generated script, in the order it is written
Stmt(op, target, arg, embeds) ==
    [op |-> op, target |-> target, arg |-> arg, embeds |-> embeds]

\* an overlay declaration that leaves the opacity out when none is given
wmsLayerCodeNoDefault(wmsLayer, index) ==
    Stmt("const", <<"wmsLayer", index>>, <<>>,
         <<Embed("comment", Num(index + 1)), Embed("comment", wmsLayer.layers),
           Embed("quoted", wmsLayer.url), Embed("quoted", wmsLayer.layers),
           Embed("code", wmsLayer.opacity)>>)

\* the text added to wmsLayersCode for the layer at (0-based) index
wmsLayerCode(wmsLayer, index) ==
    LET opacity == IF wmsLayer.opacity.t # "undefined"
                     THEN wmsLayer.opacity ELSE Num(1)
    IN Stmt("const", <<"wmsLayer", index>>, <<>>,
            <<Embed("comment", Num(index + 1)), Embed("comment", wmsLayer.layers),
              Embed("quoted", wmsLayer.url), Embed("quoted", wmsLayer.layers),
              Embed("code", opacity)>>)

\* an overlay added to the map only, its source left out of tileSources
layerPushesNoSource(index) ==
    <<Stmt("push", <<"layers">>, <<"wmsLayer", index>>, <<>>)>>

\* the two lines added to layersArray for the layer at (0-based) index
layerPushes(index) ==
    <<Stmt("push", <<"layers">>, <<"wmsLayer", index>>, <<>>),
      Stmt("push", <<"tileSources">>, <<"wmsLayer", index>>, <<>>)>>

RECURSIVE wmsForEach(_, _)

\* wmsLayers.forEach from position i on: the two accumulated strings
wmsForEach(items, i) ==
    IF i > Len(items) THEN [code |-> <<>>, array |-> <<>>]
    ELSE LET rest == wmsForEach(items, i + 1)
         IN [code |-> <<wmsLayerCode(items[i], i - 1)>> \o rest.code,
             array |-> layerPushes(i - 1) \o rest.array]

\* pinLayerCode, when pin is given
pinLayerCode(lat, lon, pin) ==
    LET pinLat == IF pin.lat.t # "undefined" THEN pin.lat ELSE lat
        pinLon == IF pin.lon.t # "undefined" THEN pin.lon ELSE lon
        pinText == IF Truthy(pin.text) THEN pin.text ELSE Str("")
        pinColor == IF Truthy(pin.color) THEN pin.color ELSE Str("#FF0000")
        pinSize == IF Truthy(pin.size) THEN pin.size ELSE Num(20)
    IN <<Stmt("const", <<"pinFeature">>, <<>>,
              <<Embed("code", pinLon), Embed("code", pinLat)>>),
         Stmt("const", <<"pinStyle">>, <<>>,
              <<Embed("code", pinSize), Embed("quoted", pinColor),
                Embed("quoted", pinText), Embed("code", Num(pinSize.n + 20))>>),
         Stmt("setStyle", <<"pinFeature">>, <<"pinStyle">>, <<>>),
         Stmt("const", <<"pinLayer">>, <<"pinFeature">>, <<>>),
         Stmt("log", <<"console">>, <<>>,
              <<Embed("code", pinLon), Embed("code", pinLat),
                Embed("quoted", pinText)>>)>>

\* generateHtml(lat, lon, zoom, wmsLayers, pin): the statements of the inline
\* script that hold an interpolation or assemble the layer list (its
\* listeners and timers are the page actions)
generateHtml(lat, lon, zoom, wmsLayers, pin) ==
    LET each == IF wmsLayers.t = "array" /\ Len(wmsLayers.items) > 0
                  THEN wmsForEach(wmsLayers.items, 1)
                  ELSE [code |-> <<>>, array |-> <<>>]
        hasPin == pin.t # "null"
    IN <<Stmt("const", <<"osmLayer">>, <<>>, <<>>)>>
       \o each.code
       \o (IF hasPin THEN pinLayerCode(lat, lon, pin) ELSE <<>>)
       \o <<Stmt("const", <<"layers">>, <<>>, <<>>),
            Stmt("const", <<"tileSources">>, <<>>, <<>>),
            Stmt("push", <<"layers">>, <<"osmLayer">>, <<>>)>>
       \o each.array
       \o <<Stmt("push", <<"tileSources">>, <<"osmLayer">>, <<>>)>>
       \o (IF hasPin THEN <<Stmt("push", <<"layers">>, <<"pinLayer">>, <<>>)>>
           ELSE <<>>)
       \o <<Stmt("const", <<"map">>, <<"layers">>,
                 <<Embed("code", lon), Embed("code", lat), Embed("code", zoom)>>)>>
       \o (IF hasPin
             THEN <<Stmt("log", <<"console">>, <<>>,
                         <<Embed("code", IF pin.lat.t # "undefined"
                                           THEN pin.lat ELSE lat),
                           Embed("code", IF pin.lon.t # "undefined"
                                           THEN pin.lon ELSE lon)>>)>>
             ELSE <<>>)

(* ------------------------ /screenshot handler --------------------------- *)

\* wms = null, pin = null
NoWms == [t |-> "null", items |-> <<>>]

NoPin == [t |-> "null", lat |-> Undefined, lon |-> Undefined,
          text |-> Undefined, color |-> Undefined, size |-> Undefined]

\* the locals of the two handlers once the request is read: POST destructures
\* req.body with defaults; GET destructures req.query, whose values are
\* texts, and parses the numbers out of them
Locals(in) ==
    IF in.method = "GET"
      THEN [lat |-> parseFloat(in.lat), lon |-> parseFloat(in.lon),
            zoom |-> parseInt(in.zoom),
            width |-> parseInt(Default(in.width, Num(640))),
            height |-> parseInt(Default(in.height, Num(480))),
            format |-> Default(in.format, Str("jpeg")),
            quality |-> parseInt(Default(in.quality, Num(70))),
            wms |-> NoWms, pin |-> NoPin]
      ELSE [lat |-> in.lat, lon |-> in.lon, zoom |-> in.zoom,
            width |-> Default(in.width, Num(640)),
            height |-> Default(in.height, Num(480)),
            format |-> Default(in.format, Str("jpeg")),
            quality |-> Default(in.quality, Num(70)),
            wms |-> in.wms, pin |-> in.pin]

\* the 400 exits in the order they are tested: the rules listed, <<>> when
\* the request is accepted
Rejection(in) ==
    LET loc == Locals(in)
        validationErrors == validateInput(loc.lat, loc.lon, loc.zoom, loc.width,
                                          loc.height, loc.wms, loc.pin)
    IN IF in.method = "GET"
            /\ (isNaN(loc.lat) \/ isNaN(loc.lon) \/ isNaN(loc.zoom))
         THEN <<Rule("required")>>
       ELSE IF Len(validationErrors) > 0 THEN validationErrors
       ELSE IF ~(loc.format.t = "string" /\ loc.format.s \in supportedFormats)
         THEN <<Rule("format")>>
       ELSE IF loc.format.s = "jpeg"
                 /\ (Less(loc.quality, 1) \/ More(loc.quality, 100))
         THEN <<Rule("quality")>>
       ELSE <<>>

\* the argument of page.setViewport
Viewport(in) ==
    [width |-> parseInt(Locals(in).width), height |-> parseInt(Locals(in).height)]

\* screenshotOptions always asking for the browser's default type
screenshotOptionsDefaultType(in) ==
    [type |-> "png",
     quality |-> IF Locals(in).format.s = "jpeg"
                   THEN parseInt(Locals(in).quality) ELSE Undefined]

\* screenshotOptions
screenshotOptions(in) ==
    [type |-> Locals(in).format.s,
     quality |-> IF Locals(in).format.s = "jpeg"
                   THEN parseInt(Locals(in).quality) ELSE Undefined]

\* the handler's locals before they are assigned
NoOptions == [type |-> "", quality |-> Undefined]

NoBuffer == [type |-> "", length |-> 0]

NoHeaders == [contentType |-> "", contentLength |-> ""]

\* the page of request r before setContent, and after the page is gone
NoPage(r) ==
    /\ script' = [script EXCEPT ![r] = "none"]
    /\ title' = [title EXCEPT ![r] = "none"]
    /\ total' = [total EXCEPT ![r] = 0]
    /\ loaded' = [loaded EXCEPT ![r] = 0]
    /\ timers' = [timers EXCEPT ![r] = {}]
    /\ fetching' = [fetching EXCEPT ![r] = EmptyBag]
    /\ now' = [now EXCEPT ![r] = 0]
    /\ since' = [since EXCEPT ![r] = 0]

\* GET or POST /screenshot up to its first await: the request is read, the 400
\* exits, then getBrowser, which either pops an idle instance (and newPage is
\* called) or starts a launch.  (The try and catch blocks of the two handlers
\* are the same.)  A request takes the lowest free slot.
Arrive(r) ==
    /\ ~exited
    /\ pc[r] \in {"idle", "done"}
    /\ \A q \in 1..(r - 1) : pc[q] \notin {"idle", "done"}
    /\ err' = [err EXCEPT ![r] = "none"]
    /\ LET rejected == Rejection(input)
       IN IF Len(rejected) > 0
            THEN /\ pc' = [pc EXCEPT ![r] = "done"]
                 /\ status' = [status EXCEPT ![r] = 400]
                 /\ details' = [details EXCEPT ![r] = rejected]
                 /\ browser' = [browser EXCEPT ![r] = 0]
                 /\ UNCHANGED poolVars
            ELSE /\ status' = [status EXCEPT ![r] = 0]
                 /\ details' = [details EXCEPT ![r] = <<>>]
                 /\ IF Len(browsers) > 0
                      THEN /\ getBrowserIdle(r)
                           /\ pc' = [pc EXCEPT ![r] = "newPage"]
                      ELSE /\ pc' = [pc EXCEPT ![r] = "launch"]
                           /\ browser' = [browser EXCEPT ![r] = 0]
                           /\ UNCHANGED poolVars
    /\ html' = [html EXCEPT ![r] = <<>>]
    /\ options' = [options EXCEPT ![r] = NoOptions]
    /\ buffer' = [buffer EXCEPT ![r] = NoBuffer]
    /\ headers' = [headers EXCEPT ![r] = NoHeaders]
    /\ UNCHANGED <<input, pageVars, timeVars, sigVars, bytes>>

\* puppeteer.launch resolves: the instance is leased and newPage is called
LaunchOk(r) ==
    /\ ~exited
    /\ pc[r] = "launch"
    /\ getBrowserLaunched(r)
    /\ pc' = [pc EXCEPT ![r] = "newPage"]
    /\ UNCHANGED <<err, status, details, input, pageVars, timeVars, sigVars>>
    /\ UNCHANGED outVars

\* a getBrowser that launches again when the launch has failed
LaunchFailRetry(r) ==
    /\ ~exited
    /\ pc[r] = "launch"
    /\ pc' = [pc EXCEPT ![r] = "launch"]
    /\ err' = [err EXCEPT ![r] = "Error"]
    /\ UNCHANGED <<poolVars, browser, status, details, input, pageVars, timeVars, sigVars>>
    /\ UNCHANGED outVars

\* puppeteer.launch rejects: catch with browser = null answers 500 at once
LaunchFail(r) ==
    /\ ~exited
    /\ pc[r] = "launch"
    /\ pc' = [pc EXCEPT ![r] = "done"]
    /\ err' = [err EXCEPT ![r] = "Error"]
    /\ status' = [status EXCEPT ![r] = 500]
    /\ UNCHANGED <<poolVars, browser, details, input, pageVars, timeVars, sigVars>>
    /\ UNCHANGED outVars

\* browser.newPage() resolves: page.setViewport is called
NewPageOk(r) ==
    /\ ~exited
    /\ pc[r] = "newPage"
    /\ Alive(browser[r])
    /\ pc' = [pc EXCEPT ![r] = "setViewport"]
    /\ pages' = [pages EXCEPT ![browser[r]] = @ + 1]
    /\ UNCHANGED <<browsers, inUse, closed, launched, browser, err, status, details, input, pageVars, timeVars, sigVars>>
    /\ UNCHANGED outVars

\* page.setViewport resolves (it rejects a size that is not a number):
\* generateHtml, then page.setContent is called
SetViewportOk(r) ==
    /\ ~exited
    /\ pc[r] = "setViewport"
    /\ Alive(browser[r])
    /\ ~isNaN(Viewport(input).width) /\ ~isNaN(Viewport(input).height)
    /\ pc' = [pc EXCEPT ![r] = "setContent"]
    /\ html' = [html EXCEPT ![r] =
                  LET loc == Locals(input)
                  IN generateHtml(loc.lat, loc.lon, loc.zoom, loc.wms, loc.pin)]
    /\ UNCHANGED <<poolVars, browser, err, status, details, input, pageVars, timeVars, sigVars>>
    /\ UNCHANGED <<options, buffer, headers, bytes>>

\* page.setContent resolves (domcontentloaded): the inline script has run, its
\* two timers are pending, the title is 'Loading'; waitForFunction is called
SetContentOk(r) ==
    /\ ~exited
    /\ pc[r] = "setContent"
    /\ Alive(browser[r])
    /\ pc' = [pc EXCEPT ![r] = "wait"]
    /\ script' = [script EXCEPT ![r] = "running"]
    /\ title' = [title EXCEPT ![r] = "Loading"]
    /\ total' = [total EXCEPT ![r] = 0]
    /\ loaded' = [loaded EXCEPT ![r] = 0]
    /\ timers' = [timers EXCEPT ![r] = {"noTiles", "hard"}]
    /\ fetching' = [fetching EXCEPT ![r] = EmptyBag]
    /\ now' = [now EXCEPT ![r] = 0]
    /\ since' = [since EXCEPT ![r] = 0]
    /\ UNCHANGED <<poolVars, browser, err, status, details, input, sigVars>>
    /\ UNCHANGED outVars

\* page.setContent resolves but the inline script threw at its first line
\* (ol.js did not load): no listener and no timer exists
SetContentNoScript(r) ==
    /\ ~exited
    /\ pc[r] = "setContent"
    /\ Alive(browser[r])
    /\ pc' = [pc EXCEPT ![r] = "wait"]
    /\ script' = [script EXCEPT ![r] = "dead"]
    /\ title' = [title EXCEPT ![r] = "Loading"]
    /\ total' = [total EXCEPT ![r] = 0]
    /\ loaded' = [loaded EXCEPT ![r] = 0]
    /\ timers' = [timers EXCEPT ![r] = {}]
    /\ fetching' = [fetching EXCEPT ![r] = EmptyBag]
    /\ now' = [now EXCEPT ![r] = 0]
    /\ since' = [since EXCEPT ![r] = 0]
    /\ UNCHANGED <<poolVars, browser, err, status, details, input, sigVars>>
    /\ UNCHANGED outVars

\* waitForFunction resolves: the title is 'ready'; the settle timer starts
WaitOk(r) ==
    /\ ~exited
    /\ pc[r] = "wait"
    /\ Alive(browser[r])
    /\ title[r] = "ready"
    /\ pc' = [pc EXCEPT ![r] = "settle"]
    /\ since' = [since EXCEPT ![r] = now[r]]
    /\ UNCHANGED <<poolVars, browser, err, status, details, input, pageVars, now, sigVars>>
    /\ UNCHANGED outVars

\* a catch block that hands the instance to releaseBrowser without closing it
CatchRelease(r, e) ==
    /\ pc' = [pc EXCEPT ![r] = "catch"]
    /\ err' = [err EXCEPT ![r] = e]
    /\ releaseBrowser(browser[r])
    /\ NoPage(r)
    /\ UNCHANGED <<pages, browser, status, details, input, sigVars>>
    /\ html' = [html EXCEPT ![r] = <<>>]
    /\ options' = [options EXCEPT ![r] = NoOptions]
    /\ buffer' = [buffer EXCEPT ![r] = NoBuffer]
    /\ UNCHANGED <<headers, bytes>>

\* the catch block up to `await browser.close()`; the constants of the try
\* block (page, html, screenshotOptions, buffer) are out of scope
Catch(r, e) ==
    /\ pc' = [pc EXCEPT ![r] = "catch"]
    /\ err' = [err EXCEPT ![r] = e]
    /\ Close({browser[r]})
    /\ pages' = [pages EXCEPT ![browser[r]] = 0]
    /\ NoPage(r)
    /\ UNCHANGED <<browsers, inUse, launched, browser, status, details, input, sigVars>>
    /\ html' = [html EXCEPT ![r] = <<>>]
    /\ options' = [options EXCEPT ![r] = NoOptions]
    /\ buffer' = [buffer EXCEPT ![r] = NoBuffer]
    /\ UNCHANGED <<headers, bytes>>

\* a handler that swallows the TimeoutError and goes on to capture
WaitTimedOutCaptures(r) ==
    /\ ~exited
    /\ pc[r] = "wait"
    /\ title[r] # "ready"
    /\ NodeTimerDue(r)
    /\ pc' = [pc EXCEPT ![r] = "settle"]
    /\ since' = [since EXCEPT ![r] = now[r]]
    /\ UNCHANGED <<poolVars, browser, err, status, details, input, pageVars, now, sigVars>>
    /\ UNCHANGED outVars

\* waitForFunction rejects with a TimeoutError after 20 s without the signal
WaitTimedOut(r) ==
    /\ ~exited
    /\ pc[r] = "wait"
    /\ title[r] # "ready"
    /\ NodeTimerDue(r)
    /\ Catch(r, "TimeoutError")

\* a handler that captures as soon as readiness is observed, without the delay
SettleAtOnce(r) ==
    /\ ~exited
    /\ pc[r] = "settle"
    /\ pc' = [pc EXCEPT ![r] = "screenshot"]
    /\ options' = [options EXCEPT ![r] = screenshotOptions(input)]
    /\ UNCHANGED <<poolVars, browser, err, status, details, input, pageVars, timeVars, sigVars>>
    /\ UNCHANGED <<html, buffer, headers, bytes>>

\* the 1 s settle timer fires: screenshotOptions is built and page.screenshot
\* is called with it
Settle(r) ==
    /\ ~exited
    /\ pc[r] = "settle"
    /\ NodeTimerDue(r)
    /\ pc' = [pc EXCEPT ![r] = "screenshot"]
    /\ options' = [options EXCEPT ![r] = screenshotOptions(input)]
    /\ UNCHANGED <<poolVars, browser, err, status, details, input, pageVars, timeVars, sigVars>>
    /\ UNCHANGED <<html, buffer, headers, bytes>>

\* page.screenshot rejects
ScreenshotFail(r) ==
    /\ ~exited
    /\ pc[r] = "screenshot"
    /\ Catch(r, "CaptureError")

\* page.screenshot resolves with an image of the type asked for (it rejects a
\* quality that is not a number from 0 to 100): page.close is called
ScreenshotOk(r) ==
    /\ ~exited
    /\ pc[r] = "screenshot"
    /\ Alive(browser[r])
    /\ options[r].quality.t = "undefined"
         \/ (~Less(options[r].quality, 0) /\ ~More(options[r].quality, 100)
               /\ ~isNaN(options[r].quality))
    /\ pc' = [pc EXCEPT ![r] = "pageClose"]
    /\ buffer' = [buffer EXCEPT ![r] = [type |-> options[r].type, length |-> bytes]]
    /\ UNCHANGED <<poolVars, browser, err, status, details, input, pageVars, timeVars, sigVars>>
    /\ UNCHANGED <<html, options, headers, bytes>>

\* the other awaits of the try block that act on the instance or its page
BrowserOps == {"newPage", "setViewport", "setContent", "wait", "pageClose"}

\* one of them rejects
StepFail(r) ==
    /\ ~exited
    /\ pc[r] \in BrowserOps
    /\ Catch(r, "Error")

\* a handler that releases the instance without closing its page
PageLeftOpen(r) ==
    /\ ~exited
    /\ pc[r] = "pageClose"
    /\ Alive(browser[r])
    /\ releaseBrowser(browser[r])
    /\ pc' = [pc EXCEPT ![r] = "done"]
    /\ status' = [status EXCEPT ![r] = 200]
    /\ browser' = [browser EXCEPT ![r] = 0]
    /\ NoPage(r)
    /\ headers' = [headers EXCEPT ![r] =
                     [contentType |-> "image/" \o Locals(input).format.s,
                      contentLength |-> ToString(buffer[r].length)]]
    /\ UNCHANGED <<pages, err, details, input, sigVars, html, options, buffer, bytes>>

\* page.close() resolves: releaseBrowser, then the two headers are set and the
\* buffer is sent
PageCloseOk(r) ==
    /\ ~exited
    /\ pc[r] = "pageClose"
    /\ Alive(browser[r])
    /\ pages' = [pages EXCEPT ![browser[r]] = @ - 1]
    /\ releaseBrowser(browser[r])
    /\ pc' = [pc EXCEPT ![r] = "done"]
    /\ status' = [status EXCEPT ![r] = 200]
    /\ browser' = [browser EXCEPT ![r] = 0]
    /\ NoPage(r)
    /\ headers' = [headers EXCEPT ![r] =
                     [contentType |-> "image/" \o Locals(input).format.s,
                      contentLength |-> ToString(buffer[r].length)]]
    /\ UNCHANGED <<err, details, input, sigVars, html, options, buffer, bytes>>

\* page.close() resolves and releaseBrowser runs, then one of the statements
\* that follow it in the try block (res.set, res.send) throws: the catch block
\* calls close() on the instance it has just released
SendFail(r) ==
    /\ ~exited
    /\ pc[r] = "pageClose"
    /\ Alive(browser[r])
    /\ inUse' = inUse \ {browser[r]}
    /\ browsers' = IF Len(browsers) < maxSize
                     THEN Append(browsers, browser[r]) ELSE browsers
    /\ Close({browser[r]})
    /\ pages' = [pages EXCEPT ![browser[r]] = 0]
    /\ pc' = [pc EXCEPT ![r] = "catch"]
    /\ err' = [err EXCEPT ![r] = "SendError"]
    /\ NoPage(r)
    /\ html' = [html EXCEPT ![r] = <<>>]
    /\ options' = [options EXCEPT ![r] = NoOptions]
    /\ buffer' = [buffer EXCEPT ![r] = NoBuffer]
    /\ UNCHANGED <<launched, browser, status, details, input, sigVars, headers, bytes>>

\* `await browser.close()` of the catch block settles: 500 is sent
CatchDone(r) ==
    /\ ~exited
    /\ pc[r] = "catch"
    /\ pc' = [pc EXCEPT ![r] = "done"]
    /\ status' = [status EXCEPT ![r] = 500]
    /\ browser' = [browser EXCEPT ![r] = 0]
    /\ UNCHANGED <<poolVars, err, details, input, pageVars, timeVars, sigVars>>
    /\ UNCHANGED outVars

(* ------------------------------ shutdown -------------------------------- *)

\* a cleanup that closes the idle instances only
CleanupStartIdleOnly ==
    /\ ~exited
    /\ signals < MaxSignals
    /\ signals' = signals + 1
    /\ Close(Range(browsers))
    /\ pages' = [b \in BrowserIds |-> IF b \in Range(browsers) THEN 0 ELSE pages[b]]
    /\ UNCHANGED <<browsers, inUse, launched, reqVars, pageVars, timeVars, exited>>
    /\ UNCHANGED outVars

\* SIGTERM / SIGINT handler up to `await Promise.all(...)` inside cleanup:
\* close() has been called on every idle and every leased instance
CleanupStart ==
    /\ ~exited
    /\ signals < MaxSignals
    /\ signals' = signals + 1
    /\ Close(Range(browsers) \cup inUse)
    /\ pages' = [b \in BrowserIds |->
                   IF b \in Range(browsers) \cup inUse THEN 0 ELSE pages[b]]
    /\ UNCHANGED <<browsers, inUse, launched, reqVars, pageVars, timeVars, exited>>
    /\ UNCHANGED outVars

\* Promise.all resolves: both collections are cleared, then process.exit(0)
CleanupDone ==
    /\ ~exited
    /\ signals > 0
    /\ browsers' = <<>>
    /\ inUse' = {}
    /\ exited' = TRUE
    /\ UNCHANGED <<closed, launched, pages, reqVars, pageVars, timeVars, signals>>
    /\ UNCHANGED outVars

(* --------------------------- specifications ----------------------------- *)

\* request bodies: documented example postBasic, and the values tried
postBasic ==
    [lat |-> Num(41), lon |-> Num(29), zoom |-> Num(15),
     width |-> Undefined, height |-> Undefined, format |-> Undefined,
     quality |-> Undefined, wms |-> NoWms, pin |-> NoPin, method |-> "POST"]

Layer(url, layers, opacity) == [url |-> url, layers |-> layers, opacity |-> opacity]

GoodLayer == Layer(Str("https://geo/wms"), Str("a:b"), Undefined)

WmsOf(items) == [t |-> "array", items |-> items]

WmsValues ==
    { NoWms,
      WmsOf(<<>>),
      WmsOf(<<GoodLayer>>),
      WmsOf(<<GoodLayer, Layer(Str(""), Undefined, Num(2))>>),
      WmsOf(<<GoodLayer, GoodLayer, GoodLayer, GoodLayer, GoodLayer, GoodLayer>>),
      [t |-> "string", items |-> <<>>] }

PinOf(text, color, size) ==
    [t |-> "object", lat |-> Undefined, lon |-> Undefined,
     text |-> text, color |-> color, size |-> size]

LongText == "123456789012345678901234567890123456789012345678901"

PinValues ==
    { NoPin,
      PinOf(Str("DEPREM"), Str("#FF0000"), Num(25)),
      PinOf(Str("DEPREM"), Undefined, Num(5)),
      PinOf(Str(LongText), Num(7), Num(51)),
      [NoPin EXCEPT !.t = "string"] }

Inputs ==
    [lat : {Num(41), Num(91), Str("41")},
     lon : {Num(29), Num(-181)},
     zoom : {Num(15), Num(0), Undefined},
     width : {Undefined, Num(800), Num(60), Num(2001), Num(0)},
     height : {Undefined, Num(49)},
     format : {Undefined, Str("png"), Str("gif")},
     quality : {Undefined, Num(90), Num(0)},
     wms : WmsValues,
     pin : PinValues,
     method : {"POST"}]

InitState ==
    /\ browsers = <<>>
    /\ inUse = {}
    /\ closed = {}
    /\ launched = 0
    /\ pages = [b \in BrowserIds |-> 0]
    /\ pc = [r \in Reqs |-> "idle"]
    /\ browser = [r \in Reqs |-> 0]
    /\ err = [r \in Reqs |-> "none"]
    /\ status = [r \in Reqs |-> 0]
    /\ details = [r \in Reqs |-> <<>>]
    /\ script = [r \in Reqs |-> "none"]
    /\ title = [r \in Reqs |-> "none"]
    /\ total = [r \in Reqs |-> 0]
    /\ loaded = [r \in Reqs |-> 0]
    /\ timers = [r \in Reqs |-> {}]
    /\ fetching = [r \in Reqs |-> EmptyBag]
    /\ now = [r \in Reqs |-> 0]
    /\ since = [r \in Reqs |-> 0]
    /\ signals = 0
    /\ exited = FALSE
    /\ html = [r \in Reqs |-> <<>>]
    /\ options = [r \in Reqs |-> NoOptions]
    /\ buffer = [r \in Reqs |-> NoBuffer]
    /\ headers = [r \in Reqs |-> NoHeaders]

Init == InitState /\ input = postBasic /\ bytes = MaxBytes

\* the whole service, the page seen from outside: requests that can fail at
\* every await, and shutdown
Next ==
    \/ \E r \in 1..MaxFailReqs :
         \/ Arrive(r)
         \/ LaunchOk(r)
         \/ LaunchFail(r)
         \/ NewPageOk(r)
         \/ SetViewportOk(r)
         \/ SetContentOk(r)
         \/ ScriptSetsReady(r)
         \/ WaitOk(r)
         \/ Elapse(r)
         \/ Settle(r)
         \/ ScreenshotOk(r)
         \/ ScreenshotFail(r)
         \/ PageCloseOk(r)
         \/ StepFail(r)
         \/ CatchDone(r)
    \/ CleanupStart
    \/ CleanupDone

Spec == Init /\ [][Next]_vars

\* the steps by which a handler that is suspended at an await goes on
Continue(r) ==
    \/ LaunchOk(r)
    \/ LaunchFail(r)
    \/ NewPageOk(r)
    \/ SetViewportOk(r)
    \/ SetContentOk(r)
    \/ ScriptSetsReady(r)
    \/ WaitOk(r)
    \/ Elapse(r)
    \/ Settle(r)
    \/ ScreenshotOk(r)
    \/ ScreenshotFail(r)
    \/ PageCloseOk(r)
    \/ StepFail(r)
    \/ SendFail(r)
    \/ CatchDone(r)

\* the whole service, where a statement after releaseBrowser can throw too
NextLive ==
    \/ Next
    \/ \E r \in 1..MaxFailReqs : SendFail(r)

\* every awaited promise settles: a suspended handler is resumed, and the
\* closes awaited by cleanup settle
SpecLive ==
    /\ Init /\ [][NextLive]_vars
    /\ \A r \in 1..MaxFailReqs : WF_vars(Continue(r))
    /\ WF_vars(CleanupDone)

\* the pool under concurrent requests none of whose operations fails
NextPool ==
    \E r \in Reqs :
         \/ Arrive(r)
         \/ LaunchOk(r)
         \/ NewPageOk(r)
         \/ SetViewportOk(r)
         \/ SetContentOk(r)
         \/ ScriptSetsReady(r)
         \/ WaitOk(r)
         \/ Elapse(r)
         \/ Settle(r)
         \/ ScreenshotOk(r)
         \/ PageCloseOk(r)

SpecPool == Init /\ [][NextPool]_vars

\* one request with its page followed second by second
PageStep(r) ==
         \/ Arrive(r)
         \/ LaunchOk(r)
         \/ LaunchFail(r)
         \/ NewPageOk(r)
         \/ SetViewportOk(r)
         \/ SetContentOk(r)
         \/ SetContentNoScript(r)
         \/ TileLoadStart(r)
         \/ TileLoadEnd(r)
         \/ RenderComplete(r)
         \/ NoTilesTimer(r)
         \/ HardTimer(r)
         \/ Tick(r)
         \/ WaitOk(r)
         \/ WaitTimedOut(r)
         \/ Settle(r)
         \/ ScreenshotOk(r)
         \/ ScreenshotFail(r)
         \/ PageCloseOk(r)
         \/ StepFail(r)
         \/ CatchDone(r)

NextPage == PageStep(1)

\* the documented body, alone and with one overlay
postOverlay == [postBasic EXCEPT !.wms = WmsOf(<<GoodLayer>>)]

InitPage == InitState /\ input \in {postBasic, postOverlay} /\ bytes = MaxBytes

SpecPage == InitPage /\ [][NextPage]_vars

\* one POST /screenshot with each of the request bodies tried, up to its
\* first await
InitValidate == InitState /\ input \in Inputs /\ bytes = MaxBytes

NextValidate == Arrive(1)

SpecValidate == InitValidate /\ [][NextValidate]_vars

\* request bodies for the render: every overlay list validateInput lets
\* through (and the shortest it rejects) over three layers, with and without
\* a marker; strings that hold a quote, a newline, a backslash, a closing tag
OpaqueLayer == Layer(Str("https://geo/wms"), Str("c"), Num(0))

QuoteLayer == Layer(Str("https://geo/wms?'+alert(1)+'"), Str("a\nalert(1)"), Num(1))

RECURSIVE ListsOver(_, _)

ListsOver(S, n) ==
    IF n = 0 THEN {<<>>}
    ELSE LET shorter == ListsOver(S, n - 1)
         IN shorter \cup {Append(l, x) : l \in {k \in shorter : Len(k) = n - 1},
                                         x \in S}

OverlayLists == ListsOver({GoodLayer, OpaqueLayer, QuoteLayer}, 6)

MarkerValues ==
    { NoPin,
      PinOf(Undefined, Undefined, Undefined),
      PinOf(Str("DEPREM"), Str("#00FF00"), Num(25)),
      PinOf(Str("</script><script>alert(1)</script>"), Str("red\\"), Num(10)) }

HtmlInputs ==
    {[postBasic EXCEPT !.wms = w, !.pin = p] :
        w \in {NoWms} \cup {WmsOf(l) : l \in OverlayLists}, p \in MarkerValues}

FormatInputs ==
    {[postBasic EXCEPT !.format = f, !.quality = q] :
        f \in {Undefined, Str("jpeg"), Str("png"), Str("webp")},
        q \in {Undefined, Num(1), Num(90)}}

\* GET /screenshot?lat=41&lon=29&zoom=15 with each of these query values
QueryInputs ==
    [lat : {Str("41")}, lon : {Str("29"), Undefined},
     zoom : {Str("15"), Str("15px"), Str("abc")},
     width : {Undefined, Str("800"), Str("wide")},
     height : {Undefined, Str("600")},
     format : {Undefined, Str("jpeg"), Str("png"), Str("webp"), Str("gif")},
     quality : {Undefined, Str("90"), Str("101"), Str("high")},
     wms : {NoWms}, pin : {NoPin}, method : {"GET"}]

InitRender ==
    /\ InitState
    /\ \/ input \in HtmlInputs /\ bytes = MaxBytes
       \/ input \in FormatInputs /\ bytes \in 1..MaxBytes
       \/ input \in QueryInputs /\ bytes = MaxBytes

\* one request at a time from acceptance to its response, the page seen from
\* outside
NextRender ==
    \/ Arrive(1)
    \/ LaunchOk(1)
    \/ NewPageOk(1)
    \/ SetViewportOk(1)
    \/ SetContentOk(1)
    \/ ScriptSetsReady(1)
    \/ WaitOk(1)
    \/ Elapse(1)
    \/ Settle(1)
    \/ ScreenshotOk(1)
    \/ ScreenshotFail(1)
    \/ PageCloseOk(1)
    \/ StepFail(1)
    \/ CatchDone(1)

SpecRender == InitRender /\ [][NextRender]_vars

(* ------------------------------- claims --------------------------------- *)

Idle == Range(browsers)

Quiet == \A r \in Reqs : pc[r] \in {"idle", "done"}

\* C1: a request that fails after it acquired an instance does not end while
\* that instance is still recorded as leased (it went through releaseBrowser)
C1_FailedRequestReleases ==
    [][\A r \in Reqs :
         (pc[r] = "catch" /\ pc'[r] = "done") => browser[r] \notin inUse']_vars

\* C2: under interleaved getBrowser / releaseBrowser calls no instance is
\* leased to two requests, idle holds no instance twice, and every created
\* instance is exactly one of idle, leased, destroyed
C2_PoolAccounting ==
    /\ \A r1, r2 \in Reqs :
         (r1 # r2 /\ browser[r1] # 0) => browser[r1] # browser[r2]
    /\ \A i, j \in 1..Len(browsers) : i # j => browsers[i] # browsers[j]
    /\ inUse = {browser[r] : r \in {q \in Reqs : browser[q] # 0}}
    /\ Idle \cup inUse \cup closed = 1..launched
    /\ Len(browsers) + Cardinality(inUse) + Cardinality(closed) = launched

\* C2 witness: two concurrent leases beside an idle and a destroyed instance
C2_Witness ==
    Cardinality(inUse) >= 2 /\ Len(browsers) >= 1 /\ closed # {}

\* C3: idle holds at most maxSize instances and every instance is in exactly
\* one of idle, leased, destroyed
C3_PoolPartition ==
    /\ Len(browsers) <= maxSize
    /\ Idle \cap inUse = {}
    /\ closed \cap (Idle \cup inUse) = {}

\* C4: when N instances were acquired from an empty idle set and all were
\* released, idle holds min(N, maxSize) and max(0, N - maxSize) are destroyed;
\* release keeps the instance iff |idle| < maxSize; an acquire with a non-empty
\* idle set takes the top idle instance and launches nothing
C4_AcquireReleaseCounts ==
    /\ [](Quiet => /\ Len(browsers) = Min(launched, maxSize)
                   /\ Cardinality(closed) = Max(0, launched - maxSize))
    /\ [][\A r \in Reqs :
            /\ (pc[r] = "pageClose" /\ pc'[r] = "done") =>
                 IF Len(browsers) < 3
                   THEN browsers' = Append(browsers, browser[r])
                        /\ closed' = closed
                   ELSE browsers' = browsers
                        /\ closed' = closed \cup {browser[r]}
            /\ (pc[r] \in {"idle", "done"} /\ pc'[r] \notin {"idle", "done"}
                  /\ Len(browsers) > 0) =>
                 /\ pc'[r] = "newPage"
                 /\ browser'[r] = browsers[Len(browsers)]
                 /\ Len(browsers') = Len(browsers) - 1
                 /\ launched' = launched]_vars

\* C4 witness: more instances than maxSize were acquired and all released
C4_Witness ==
    Quiet /\ launched > maxSize /\ Len(browsers) = maxSize /\ closed # {}

\* C5: the title goes from not ready to ready only when total > 0 and
\* loaded >= total holds or when the 2 s or the 15 s timer runs, and a ready
\* title is never set back
C5_ReadyOnlyWhenDone ==
    [][\A r \in Reqs :
         /\ (title[r] = "Loading" /\ title'[r] = "ready") =>
              \/ total'[r] > 0 /\ loaded'[r] >= total'[r]
              \/ "noTiles" \in timers[r] \ timers'[r] /\ now[r] >= 2
              \/ "hard" \in timers[r] \ timers'[r] /\ now[r] >= 15
         /\ title[r] = "ready" => title'[r] # "Loading"]_vars

\* C5 witness: ready by the counters, and both timers have run since
C5_Witness ==
    \E r \in Reqs : /\ title[r] = "ready" /\ timers[r] = {}
                    /\ total[r] > 0 /\ loaded[r] >= total[r]

\* C6: with a fetch started and none ended, the title is set by the 15 s timer
\* and by nothing else, it is set no later than 15 s, and the 20 s wait of the
\* handler never rejects while the script runs
C6_HardTimerBeforeWaitTimeout ==
    /\ [](\A r \in Reqs :
            (script[r] = "running" /\ title[r] = "Loading") => now[r] <= 15)
    /\ [][\A r \in Reqs :
            /\ (title[r] = "Loading" /\ title'[r] = "ready"
                  /\ total[r] > 0 /\ loaded'[r] = 0) =>
                 "hard" \in timers[r] \ timers'[r] /\ now[r] = 15
            /\ script[r] = "running" => err'[r] # "TimeoutError"]_vars

\* C6 witness: a fetch started, none ended, the signal was seen at 15 s and
\* the handler has gone on to capture
C6_Witness ==
    \E r \in Reqs : /\ pc[r] = "screenshot" /\ since[r] = 15
                    /\ total[r] > 0 /\ loaded[r] = 0

\* C7: with no fetch ever started the title is not ready before 2 s, is set by
\* the 2 s timer at 2 s, and rendercomplete never sets it
C7_NoTilesReadyAtTwoSeconds ==
    /\ [](\A r \in Reqs :
            (script[r] = "running" /\ total[r] = 0) =>
               /\ title[r] = "ready" => (now[r] >= 2 /\ "noTiles" \notin timers[r])
               /\ title[r] = "Loading" => now[r] <= 2
               /\ "hard" \in timers[r] => now[r] <= 15)
    /\ [][\A r \in Reqs :
            (title[r] = "Loading" /\ title'[r] = "ready" /\ total'[r] = 0) =>
               /\ "noTiles" \in timers[r] \ timers'[r]
               /\ "hard" \in timers'[r]
               /\ now[r] = 2]_vars

\* C7 witness: no fetch, the signal was seen at 2 s, capture has begun
C7_Witness ==
    \E r \in Reqs : /\ pc[r] = "screenshot" /\ since[r] = 2 /\ now[r] = 3
                    /\ total[r] = 0

\* C8: a request whose 20 s wait ran out ends failed with status 500, and the
\* handler is past the wait only when the signal was observed
C8_TimeoutFailsWithoutCapture ==
    \A r \in Reqs :
      /\ err[r] = "TimeoutError" =>
           /\ pc[r] \in {"catch", "done"}
           /\ pc[r] = "done" => status[r] = 500
      /\ pc[r] \in {"settle", "screenshot", "pageClose"} =>
           (title[r] = "ready" /\ err[r] = "none")
      /\ status[r] = 200 => err[r] = "none"

\* C8 witness: a request answered 500 after its wait timed out
C8_Witness ==
    \E r \in Reqs :
      pc[r] = "done" /\ err[r] = "TimeoutError" /\ status[r] = 500

\* C9: a failed capture destroys the instance and keeps it out of idle, the
\* request answers 500, and a destroyed instance outside idle never enters
\* idle, so no later request is handed it
C9_CaptureFailureDoesNotPoison ==
    /\ [](\A r \in Reqs :
            err[r] = "CaptureError" =>
               /\ pc[r] \in {"catch", "done"}
               /\ pc[r] = "catch" => (browser[r] \in closed /\ browser[r] \notin Idle)
               /\ pc[r] = "done" => status[r] = 500)
    /\ [][/\ \A r \in Reqs :
               (pc[r] = "screenshot" /\ pc'[r] = "catch") =>
                  /\ err'[r] = "CaptureError"
                  /\ browser[r] \in closed'
                  /\ browser[r] \notin Range(browsers')
          /\ \A b \in BrowserIds :
               (b \in closed /\ b \notin Idle) => b \notin Range(browsers')
          /\ \A r \in Reqs :
               (pc[r] = "launch" /\ pc'[r] = "newPage") => browser'[r] \notin closed
       ]_vars

\* C9 witness: one request answered 500 after a failed capture while another
\* is being served on a live instance
C9_Witness ==
    \E r, q \in Reqs :
      /\ pc[r] = "done" /\ err[r] = "CaptureError" /\ status[r] = 500
      /\ pc[q] = "setContent" /\ Alive(browser[q]) /\ closed # {}

\* the documented rules (the messages of validateInput, GET /api-info) that a
\* request body violates
InRange(v, lo, hi) == v.t = "number" /\ v.n >= lo /\ v.n <= hi

Given(v) == v.t # "undefined"

\* the rule, when its condition does not hold
Viol(ok, e) == IF ok THEN {} ELSE {e}

DocLayerViolations(layer, i) ==
    Viol(layer.url.t = "string" /\ layer.url.s # "", LayerRule("wmsUrl", i))
    \cup Viol(layer.layers.t = "string" /\ layer.layers.s # "",
              LayerRule("wmsLayers", i))
    \cup Viol(Given(layer.opacity) => InRange(layer.opacity, 0, 1),
              LayerRule("wmsOpacity", i))

DocViolations(in) ==
    Viol(InRange(in.lat, -90, 90), Rule("lat"))
    \cup Viol(InRange(in.lon, -180, 180), Rule("lon"))
    \cup Viol(InRange(in.zoom, 1, 20), Rule("zoom"))
    \cup Viol(Given(in.width) => InRange(in.width, 100, 2000), Rule("width"))
    \cup Viol(Given(in.height) => InRange(in.height, 100, 2000), Rule("height"))
    \cup Viol(Given(in.format) => in.format.s \in {"jpeg", "png", "webp"},
              Rule("format"))
    \cup Viol((Given(in.quality) /\ (Given(in.format) => in.format.s = "jpeg"))
                 => InRange(in.quality, 1, 100), Rule("quality"))
    \cup Viol(in.wms.t \in {"null", "array"}, Rule("wmsArray"))
    \cup Viol(Len(in.wms.items) <= 5, Rule("wmsCount"))
    \cup UNION {DocLayerViolations(in.wms.items[i], i) : i \in 1..Len(in.wms.items)}
    \cup Viol(in.pin.t \in {"null", "object"}, Rule("pinObject"))
    \cup Viol(Given(in.pin.text) => in.pin.text.t = "string", Rule("pinText"))
    \cup Viol(in.pin.text.t = "string" => Len(in.pin.text.s) <= 50,
              Rule("pinTextLength"))
    \cup Viol(Given(in.pin.color) => in.pin.color.t = "string", Rule("pinColor"))
    \cup Viol(Given(in.pin.size) => InRange(in.pin.size, 10, 50), Rule("pinSize"))

\* C10: a request that violates documented input rules is answered 400 with
\* every violated rule listed, and acquires no instance
C10_AllViolationsListed ==
    \A r \in Reqs :
      (pc[r] # "idle" /\ DocViolations(input) # {}) =>
         /\ pc[r] = "done" /\ status[r] = 400
         /\ DocViolations(input) \subseteq Range(details[r])
         /\ browser[r] = 0 /\ inUse = {} /\ launched = 0

\* the viewport of the request: width and height after the defaults
SizeOf(in) == <<Default(in.width, Num(640)), Default(in.height, Num(480))>>

\* C11: a request whose width or height is a number outside [100, 2000] is
\* answered 400 before any instance is acquired, and a render is only started
\* with both inside [100, 2000]
C11_SizeWithinDocumentedRange ==
    \A r \in Reqs :
      pc[r] # "idle" =>
        LET w == SizeOf(input)[1]
            h == SizeOf(input)[2]
        IN /\ ((w.t = "number" /\ ~InRange(w, 100, 2000))
                 \/ (h.t = "number" /\ ~InRange(h, 100, 2000))) =>
                  /\ pc[r] = "done" /\ status[r] = 400
                  /\ browser[r] = 0 /\ inUse = {} /\ launched = 0
           /\ pc[r] # "done" => (InRange(w, 100, 2000) /\ InRange(h, 100, 2000))

\* the overlay declarations of a generated script, in the order written
OverlayDecls(doc) ==
    SelectSeq(doc, LAMBDA st : st.op = "const" /\ st.target[1] = "wmsLayer")

\* what the `layers` array holds when the script has run its pushes
LayersPushed(doc) ==
    LET pushes == SelectSeq(doc, LAMBDA st : st.op = "push"
                                             /\ st.target = <<"layers">>)
    IN [i \in 1..Len(pushes) |-> pushes[i].arg]

\* the overlays and the marker of a request body
OverlaysOf(in) == IF in.wms.t = "array" THEN in.wms.items ELSE <<>>

\* C12: for an overlay list of length 0 to 5 the generated script declares
\* exactly that many overlay layers, in the supplied order and each with its
\* opacity (1 when omitted), and its layer list is the base layer, then the
\* overlays in order, then the marker layer when a marker is given
C12_OverlayDeclarations ==
    \A r \in Reqs :
      html[r] # <<>> =>
        LET items == OverlaysOf(input)
            decls == OverlayDecls(html[r])
        IN /\ Len(items) <= 5
           /\ Len(decls) = Len(items)
           /\ \A i \in 1..Len(decls) :
                /\ decls[i].target = <<"wmsLayer", i - 1>>
                /\ decls[i].embeds[3] = [ctx |-> "quoted", text |-> items[i].url.s]
                /\ decls[i].embeds[4] = [ctx |-> "quoted", text |-> items[i].layers.s]
                /\ decls[i].embeds[5] =
                     [ctx |-> "code",
                      text |-> IF items[i].opacity.t = "undefined" THEN "1"
                               ELSE ToString(items[i].opacity.n)]
           /\ LayersPushed(html[r]) =
                <<<<"osmLayer">>>>
                \o [i \in 1..Len(items) |-> <<"wmsLayer", i - 1>>]
                \o (IF input.pin.t # "null" THEN <<<<"pinLayer">>>> ELSE <<>>)
           /\ \E k \in 1..Len(html[r]) :
                /\ html[r][k].target = <<"map">> /\ html[r][k].arg = <<"layers">>
                /\ \A j \in 1..Len(html[r]) : html[r][j].op = "push" => j < k

\* C12 witness: a script generated for five overlays, the first without an
\* opacity and the second with opacity 0, and a marker
C12_Witness ==
    \E r \in Reqs :
      /\ pc[r] = "wait" /\ Len(OverlayDecls(html[r])) = 5
      /\ OverlaysOf(input)[1].opacity.t = "undefined"
      /\ OverlaysOf(input)[2].opacity = Num(0)
      /\ input.pin.t = "object"

\* C13: when the drain has completed, idle and leased are empty, every
\* instance ever created is destroyed (none is left undestroyed and
\* untracked, none destroyed in idle), and every request that was acquiring
\* or held a lease has ended, failed, through its error path
C13_DrainSafeWithLeases ==
    exited =>
      /\ browsers = <<>> /\ inUse = {}
      /\ 1..launched \subseteq closed
      /\ \A r \in Reqs :
           /\ pc[r] \in {"idle", "done"}
           /\ err[r] # "none" => status[r] = 500

\* C14: within a request the steps are taken in the order acquire, document
\* load, readiness observed, 1 s settle delay, capture, release: the wait for
\* readiness begins only when setContent has resolved, capture is called only
\* after readiness was observed and a full second has passed since, and the
\* instance is released only after the capture
C14_RenderStepsInOrder ==
    /\ [](\A r \in Reqs :
            /\ pc[r] \in {"newPage", "setViewport", "setContent", "wait",
                          "settle", "screenshot", "pageClose"} =>
                 (browser[r] # 0 /\ browser[r] \in inUse)
            /\ pc[r] \in {"setContent", "wait", "settle", "screenshot",
                          "pageClose"} => html[r] # <<>>
            /\ pc[r] \in {"settle", "screenshot", "pageClose"} =>
                 title[r] = "ready"
            /\ pc[r] \in {"screenshot", "pageClose"} => now[r] >= since[r] + 1
            /\ pc[r] = "pageClose" => buffer[r] # NoBuffer)
    /\ [][\A r \in Reqs :
            /\ (pc[r] # "wait" /\ pc'[r] = "wait") =>
                 (pc[r] = "setContent" /\ title'[r] = "Loading")
            /\ (pc[r] # "settle" /\ pc'[r] = "settle") =>
                 (pc[r] = "wait" /\ title[r] = "ready" /\ since'[r] = now[r])
            /\ (pc[r] # "screenshot" /\ pc'[r] = "screenshot") =>
                 (pc[r] = "settle" /\ now[r] >= since[r] + 1)
            /\ (pc[r] # "pageClose" /\ pc'[r] = "pageClose") =>
                 pc[r] = "screenshot"
            /\ (browser[r] \in inUse /\ browser[r] \notin inUse') =>
                 (pc[r] = "pageClose" /\ buffer[r] # NoBuffer /\ status'[r] = 200)
         ]_vars

\* C14 witness: a request answered 200, its instance back in idle
C14_Witness ==
    \E r \in Reqs :
      /\ pc[r] = "done" /\ status[r] = 200 /\ headers[r] # NoHeaders
      /\ browser[r] = 0 /\ browsers # <<>>

\* C15: when the screenshot is taken and neither the 2 s nor the 15 s timer
\* has run yet (so the counters declared readiness), every fetch that was
\* started has ended
C15_NoFetchPendingAtCapture ==
    \A r \in Reqs :
      (pc[r] = "screenshot" /\ timers[r] = {"noTiles", "hard"}) =>
         loaded[r] >= total[r]

RECURSIVE EndsLiteral(_, _, _)

\* JavaScript's reading of the text put between two single quotes, from
\* character i on: an unescaped quote or line break ends the literal early, a
\* trailing backslash escapes the closing quote
EndsLiteral(text, i, escaped) ==
    IF i > Len(text) THEN escaped
    ELSE LET c == SubSeq(text, i, i)
         IN IF escaped THEN EndsLiteral(text, i + 1, FALSE)
            ELSE IF c = "\\" THEN EndsLiteral(text, i + 1, TRUE)
            ELSE IF c \in {"'", "\n", "\r"} THEN TRUE
            ELSE EndsLiteral(text, i + 1, FALSE)

\* the HTML parser ends the script element at the first closing tag
ClosesScript(text) ==
    \E i \in 1..(Len(text) - 7) : SubSeq(text, i, i + 7) = "</script"

\* a line break ends a // comment
EndsComment(text) ==
    \E i \in 1..Len(text) : SubSeq(text, i, i) \in {"\n", "\r"}

\* the interpolated text stays where the template put it
StaysInside(e) ==
    CASE e.ctx = "quoted" -> ~EndsLiteral(e.text, 1, FALSE) /\ ~ClosesScript(e.text)
      [] e.ctx = "comment" -> ~EndsComment(e.text) /\ ~ClosesScript(e.text)
      [] OTHER -> TRUE

\* C16: every string of the request that generateHtml embeds stays inside its
\* string literal (or comment) in the generated script
C16_EmbeddedStringsEscaped ==
    \A r \in Reqs :
      \A k \in 1..Len(html[r]) :
        \A j \in 1..Len(html[r][k].embeds) : StaysInside(html[r][k].embeds[j])

\* the format a request asks for
RequestedFormat(in) == IF in.format.t = "undefined" THEN "jpeg" ELSE in.format.s

\* C17: a 200 response to a request for jpeg, png or webp carries Content-Type
\* image/<that format> and a Content-Length that reads as the byte length of
\* the captured buffer, and the capture was taken in that format
C17_ResponseMatchesCapture ==
    \A r \in Reqs :
      status[r] = 200 =>
        LET fmt == RequestedFormat(input)
            len == ScanInt(headers[r].contentLength)
        IN /\ fmt \in {"jpeg", "png", "webp"}
           /\ headers[r].contentType = "image/" \o fmt
           /\ len.count > 0 /\ len.stop > Len(headers[r].contentLength)
           /\ len.val = buffer[r].length /\ buffer[r].length = bytes
           /\ options[r].type = fmt /\ buffer[r].type = fmt

\* C17 witness: a GET request for webp answered 200 with a two-digit length
C17_Witness ==
    \E r \in Reqs :
      /\ status[r] = 200 /\ input.method = "GET"
      /\ headers[r] = [contentType |-> "image/webp", contentLength |-> "12"]

\* C18: a launch that fails during getBrowser ends the request with status
\* 500 at once, without another launch, and the failed getBrowser leaves
\* browsers and inUse as they were (nothing is leased to the request)
C18_LaunchFailureLeavesPool ==
    /\ [](\A r \in Reqs : pc[r] = "launch" => browser[r] = 0)
    /\ [][\A r \in Reqs :
            /\ (pc[r] \in {"idle", "done"} /\ pc'[r] = "launch") =>
                 (browsers' = browsers /\ inUse' = inUse /\ launched' = launched)
            /\ (pc[r] = "launch" /\ err'[r] # "none") =>
                 /\ pc'[r] = "done" /\ status'[r] = 500
                 /\ browser'[r] = 0
                 /\ browsers' = browsers /\ inUse' = inUse
                 /\ launched' = launched /\ closed' = closed
         ]_vars

\* C18 witness: a request answered 500 for a failed launch (nothing was ever
\* closed) while another request holds a lease
C18_Witness ==
    \E r \in Reqs :
      /\ pc[r] = "done" /\ status[r] = 500 /\ err[r] = "Error"
      /\ closed = {} /\ signals = 0 /\ inUse # {}

\* C19: the process exits only from a signal handler whose cleanup has
\* returned, and close() has by then been called on every instance that was
\* idle or leased when a signal arrived
C19_ExitAfterDrain ==
    /\ [](exited => signals > 0)
    /\ [][/\ signals' # signals =>
               (signals' = signals + 1 /\ ~exited'
                  /\ (Idle \cup inUse) \subseteq closed')
          /\ closed \subseteq closed'
          /\ (exited' /\ ~exited) =>
               (signals > 0 /\ browsers' = <<>> /\ inUse' = {})
         ]_vars

\* C19 witness: the process has exited after two signals; two instances are
\* destroyed, one of them leased by a request that was cut off in its wait
C19_Witness ==
    /\ exited /\ signals = 2 /\ Cardinality(closed) >= 2
    /\ \E r \in Reqs : pc[r] = "wait" /\ browser[r] \in closed

\* C20: idle is a stack: a release that keeps the instance puts it on top, an
\* acquire with idle non-empty takes the top (the most recently released
\* idle instance) and starts no launch, and a launch is started only by an
\* acquire that finds idle empty
C20_AcquireIsLifo ==
    [][\A r \in Reqs :
         /\ (pc[r] = "pageClose" /\ pc'[r] = "done" /\ browser[r] \in Range(browsers')) =>
              /\ browsers' = Append(browsers, browser[r])
              /\ browsers'[Len(browsers')] = browser[r]
         /\ (pc[r] \in {"idle", "done"} /\ pc'[r] \notin {"idle", "done"}) =>
              IF Len(browsers) > 0
                THEN /\ pc'[r] = "newPage"
                     /\ browser'[r] = browsers[Len(browsers)]
                     /\ browsers' = SubSeq(browsers, 1, Len(browsers) - 1)
                     /\ launched' = launched
                     /\ \A q \in Reqs : pc'[q] = "launch" => pc[q] = "launch"
                ELSE /\ pc'[r] = "launch" /\ browser'[r] = 0
                     /\ browsers' = browsers
         /\ (pc[r] # "launch" /\ pc'[r] = "launch") => Len(browsers) = 0
         /\ launched' # launched =>
              \E q \in Reqs : pc[q] = "launch" /\ pc'[q] = "newPage"
      ]_vars

\* C20 witness: two instances were released, and the one on top of the other
\* has been handed out again
C20_Witness ==
    /\ launched = 2 /\ browsers = <<2>>
    /\ pc[1] = "newPage" /\ browser[1] = 1
    /\ pc[2] = "done" /\ status[2] = 200


\* the page's script is running for request r
Tracking(r) == script[r] = "running" /\ PageLive(r)

\* C21: while the script runs, its tile-backed layers are the base layer and
\* one layer per overlay, the source of each is registered with the counters
\* exactly once, the counters differ by the number of fetches in flight, and a
\* fetch in flight on any of these layers keeps loaded >= total false
C21_EveryTileLayerCounted ==
    \A r \in Reqs :
      Tracking(r) =>
        /\ TileLayers(html[r]) =
             {<<"osmLayer">>}
               \cup {<<"wmsLayer", i - 1>> : i \in 1..Len(OverlaysOf(input))}
        /\ \A layer \in TileLayers(html[r]) : Registrations(html[r], layer) = 1
        /\ total[r] = loaded[r] + BagCardinality(fetching[r])
        /\ fetching[r] # EmptyBag => ~(loaded[r] >= total[r])

\* an overlay fetch is in flight after another fetch has ended, and the
\* page is still loading
C21_Witness ==
    /\ Tracking(1) /\ title[1] = "Loading"
    /\ loaded[1] > 0
    /\ BagToSet(fetching[1]) = {<<"wmsLayer", 0>>}


\* request r has passed validation and its handler has not ended
InFlight(r) == pc[r] \notin {"idle", "done"}

\* C22: every request that passed validation ends with the image (200) or
\* with 500, whatever step fails; a response is sent only by the step that
\* ends the handler, once; and no handler ends on an error without answering
C22_EveryRequestAnswered ==
    /\ \A r \in Reqs :
         InFlight(r) ~> (pc[r] = "done" /\ status[r] \in {200, 500})
    /\ [][\A r \in Reqs :
            /\ InFlight(r) => status[r] = 0
            /\ (InFlight(r) /\ status'[r] # 0) =>
                 (pc'[r] = "done" /\ status'[r] \in {200, 500})
            /\ (InFlight(r) /\ pc'[r] = "done") => status'[r] # 0]_vars
    /\ [](\A r \in Reqs : (pc[r] = "done" /\ err[r] # "none") => status[r] = 500)


\* request r is between its acquire and its release, its handler not ended
Leasing(r) ==
    \/ pc[r] \in {"newPage", "setViewport", "setContent", "wait", "settle",
                  "screenshot", "pageClose"}
    \/ pc[r] = "catch" /\ err[r] # "SendError"

\* C23: the leased set is exactly the set of instances held by requests that
\* are between acquire and release, so it is empty when no request is in
\* flight, however many requests have failed
C23_LeasedAreHeld ==
    /\ inUse = {browser[r] : r \in {q \in Reqs : Leasing(q)}}
    /\ Quiet => inUse = {}


\* C24: no destroyed instance is in idle, no step closes an instance that is
\* in idle, and every instance an acquire takes from idle is a live one
C24_IdleInstancesAreLive ==
    /\ [](Idle \cap closed = {})
    /\ [][/\ \A b \in Idle \cup Range(browsers') : b \in closed' => b \in closed
          /\ \A r \in Reqs :
               (pc[r] \in {"idle", "done"} /\ pc'[r] = "newPage") =>
                  browser'[r] \notin closed']_vars


\* request r has created a page and has not closed it
HasPage(r) ==
    pc[r] \in {"setViewport", "setContent", "wait", "settle", "screenshot",
               "pageClose"}

\* C25: an instance in idle has no page open; a live instance hosts exactly
\* the pages of the requests that hold it, at most one; and an instance enters
\* idle only from a request whose page.close() has resolved, with no page left
C25_IdleInstancesHaveNoPage ==
    /\ [](\A b \in Idle : pages[b] = 0)
    /\ [](\A b \in BrowserIds :
            Alive(b) =>
              /\ pages[b] = Cardinality({r \in Reqs : HasPage(r) /\ browser[r] = b})
              /\ pages[b] <= 1)
    /\ [][\A b \in BrowserIds :
            (b \notin Idle /\ b \in Range(browsers')) =>
               /\ pages'[b] = 0
               /\ \E r \in Reqs : pc[r] = "pageClose" /\ browser[r] = b]_vars

\* an instance is back in idle with no page while the page of another request
\* is open on a leased instance
C25_Witness ==
    /\ browsers = <<1>> /\ pages[1] = 0 /\ Alive(1)
    /\ \E r \in Reqs : pc[r] = "wait" /\ Alive(browser[r]) /\ pages[browser[r]] = 1

====
